---------------------------- MODULE Spec2Model ----------------------------
(***************************************************************************)
(* Document Decomposition Engine of HOLE-Legal-Intelligence:               *)
(*   - validateBoundaries        (src/src/utils/pdf-splitter.ts)           *)
(*   - detectDocumentBoundaries  (src/src/services/document-decomposer.ts) *)
(*   - splitPDF / splitPDFToR2   (src/src/utils/pdf-splitter.ts)           *)
(*   - handleDecomposeDocument   (src/unnamed/part_002)                    *)
(*   - fetch, the HTTP MCP endpoint (src/unnamed/part_001)                 *)
(*                                                                         *)
(* The specifications of the module:                                       *)
(*   SpecValidate    applies validateBoundaries to every bounded input;    *)
(*   SpecDetect      runs detectDocumentBoundaries against every bounded   *)
(*                   element list and oracle behaviour;                    *)
(*   Spec            runs the tool handler handleDecomposeDocument;        *)
(*   SpecSplit       runs splitPDF one pass of its loop at a time;         *)
(*   SpecName        collects the file names splitPDF suggests;            *)
(*   SpecIndex       groups elements by page and builds the page summary;  *)
(*   SpecConcurrent  interleaves two runs of the tool handler;             *)
(*   SpecMcp         answers requests at the HTTP MCP endpoint.            *)
(***************************************************************************)
EXTENDS Integers, Sequences, FiniteSets, TLC

VARIABLES
    \* ---- validateBoundaries call (SpecValidate)
    vpc,            \* "input" | "done"
    vBoundaries,    \* argument boundaries
    vTotalPages,    \* argument totalPages
    vReport,        \* returned { valid, errors }
    vArgAfter,      \* the caller's boundary array once the call has returned
    \* ---- detectDocumentBoundaries call (SpecDetect)
    dpc,            \* "start" | "responded" | "caught" | "returned" | "rerun"
    dElements,      \* argument elements
    dOracle,        \* outcome of client.messages.create
    dResult,        \* returned boundary list
    dResult2,       \* boundary list returned by a second call on the same input
    \* ---- one run of handleDecomposeDocument (Spec)
    hpc,            \* position in the handler
    hInput,         \* the parsed tool input: detectOnly, autoSplit
    hHasR2,         \* env.DOCUMENTS_R2 is configured
    hPdfPages,      \* page count of the source PDF
    hElementCount,  \* elements.length
    hPageCount,     \* page count detection derived from the elements
    hBoundaries,    \* what detectDocumentBoundaries returned
    hValidation,    \* report of validateBoundaries on the detected list
    hSplitCalled,   \* splitPDFToR2 has been invoked
    hSplitResults,  \* what splitPDF returned
    hUploadResults, \* uploadResults of splitPDFToR2
    hBucket,        \* objects stored in the R2 bucket
    hResponse,      \* what the handler returned
    \* ---- one call of splitPDF, pass by pass (SpecSplit)
    spc,            \* "start" | "loop" | "returned" | "threw"
    sTotalPages,    \* sourcePdf.getPageCount()
    sBoundaries,    \* argument boundaries
    sIndex,         \* position of the for-of loop (1-based)
    sResults,       \* results
    sOrigin,        \* for each result, the position of the boundary it came from
    sFailed,        \* positions whose page copy or save threw
    sLog,           \* what console.warn and console.error were given
    \* ---- the names splitPDF suggests for the boundaries of one run (SpecName)
    npc,            \* "input" | "done"
    nTotalPages,    \* sourcePdf.getPageCount()
    nBoundaries,    \* argument boundaries
    nResults,       \* results
    \* ---- two concurrent runs of handleDecomposeDocument (SpecConcurrent)
    cRuns,          \* per run: position, input.filePath, boundaries, results
    cBucket,        \* env.DOCUMENTS_R2, shared by the runs: key -> object
    \* ---- groupElementsByPage and the page summary (SpecIndex)
    ipc,            \* "input" | "grouped" | "summarized"
    iElements,      \* argument elements
    iPageGroups,    \* pageGroups
    iPageCount,     \* pageCount
    iPageSummary,   \* pageSummary
    \* ---- the fetch handler of the HTTP MCP endpoint (SpecMcp)
    mEnv,           \* env: whether the NEON binding is configured
    mRequest,       \* the last request received
    mResponse,      \* the response returned for it
    mServed         \* number of requests answered so far

vvars == <<vpc, vBoundaries, vTotalPages, vReport, vArgAfter>>
dvars == <<dpc, dElements, dOracle, dResult, dResult2>>
hvars == <<hpc, hInput, hHasR2, hPdfPages, hElementCount, hPageCount, hBoundaries,
           hValidation, hSplitCalled, hSplitResults, hUploadResults, hBucket,
           hResponse>>

svars == <<spc, sTotalPages, sBoundaries, sIndex, sResults, sOrigin, sFailed, sLog>>
nvars == <<npc, nTotalPages, nBoundaries, nResults>>
cvars == <<cRuns, cBucket>>
ivars == <<ipc, iElements, iPageGroups, iPageCount, iPageSummary>>
mvars == <<mEnv, mRequest, mResponse, mServed>>

vars == <<vvars, dvars, hvars, svars, nvars, cvars, ivars, mvars>>

(***************************************************************************)
(* Bounds of the model.                                                    *)
(***************************************************************************)
\* largest page count of a source PDF / largest page number of an element
MaxPages == 3
\* longest boundary list handed to validateBoundaries
MaxLen == 2
\* longest element list handed to detectDocumentBoundaries
MaxElems == 2
\* most boundary objects in one oracle response
MaxItems == 3
\* most boundary objects in the oracle response of a handler run
MaxRunItems == 2

(***************************************************************************)
(* Generic helpers.                                                        *)
(***************************************************************************)
SeqsUpTo(S, n) == UNION {[1..k -> S] : k \in 0..n}

Max2(a, b) == IF a >= b THEN a ELSE b
Min2(a, b) == IF a <= b THEN a ELSE b

RECURSIVE Concat(_)
Concat(ss) == IF Len(ss) = 0 THEN <<>> ELSE Head(ss) \o Concat(Tail(ss))

\* all reorderings of the sequence s
PermutationsOf(s) ==
    {[i \in 1..Len(s) |-> s[p[i]]] : p \in Permutations(1..Len(s))}

(***************************************************************************)
(* validateBoundaries(boundaries, totalPages)    pdf-splitter.ts:161-198   *)
(* An error string is modelled by its template (kind) and the numbers      *)
(* interpolated into it (args), in the order of the template.              *)
(***************************************************************************)
Err(kind, args) == [kind |-> kind, args |-> args]

\* pdf-splitter.ts:172-174  `Gap detected: pages ${end+1} to ${next.start-1} ...`
GapCheck(current, next) ==
    IF current.end_page + 1 < next.start_page
    THEN <<Err("gap", <<current.end_page + 1, next.start_page - 1>>)>>
    ELSE <<>>

\* a strict comparison in place of >=: touching ranges (end = next start) pass
OverlapCheckStrict(current, next, i) ==
    IF current.end_page > next.start_page
    THEN <<Err("overlap", <<i, current.start_page, current.end_page,
                            i + 1, next.start_page, next.end_page>>)>>
    ELSE <<>>

\* pdf-splitter.ts:176-178  `Overlap detected: boundary ${i} (pages s-e) overlaps
\* with boundary ${i+1} (pages s-e)`; i is the 0-based loop index
OverlapCheck(current, next, i) ==
    IF current.end_page >= next.start_page
    THEN <<Err("overlap", <<i, current.start_page, current.end_page,
                            i + 1, next.start_page, next.end_page>>)>>
    ELSE <<>>

\* pdf-splitter.ts:168-179, the loop `for (i = 0; i < boundaries.length - 1; i++)`,
\* from 0-based index i on; boundaries[i] of the code is boundaries[i + 1] here
RECURSIVE GapLoop(_, _)
GapLoop(boundaries, i) ==
    IF ~(i < Len(boundaries) - 1) THEN <<>>
    ELSE GapCheck(boundaries[i + 1], boundaries[i + 2])
         \o OverlapCheck(boundaries[i + 1], boundaries[i + 2], i)
         \o GapLoop(boundaries, i + 1)

\* an else-if chain in place of the independent ifs: stops at the first violation
BoundsCheckElseIf(boundary, totalPages) ==
    IF boundary.start_page < 1
    THEN <<Err("start", <<boundary.start_page>>)>>
    ELSE IF boundary.end_page > totalPages
    THEN <<Err("end", <<boundary.end_page, totalPages>>)>>
    ELSE IF boundary.start_page > boundary.end_page
    THEN <<Err("range", <<boundary.start_page, boundary.end_page>>)>>
    ELSE <<>>

\* pdf-splitter.ts:183-191, the three independent ifs on one boundary
BoundsCheck(boundary, totalPages) ==
    (IF boundary.start_page < 1
     THEN <<Err("start", <<boundary.start_page>>)>> ELSE <<>>)
    \o (IF boundary.end_page > totalPages
        THEN <<Err("end", <<boundary.end_page, totalPages>>)>> ELSE <<>>)
    \o (IF boundary.start_page > boundary.end_page
        THEN <<Err("range", <<boundary.start_page, boundary.end_page>>)>>
        ELSE <<>>)

\* pdf-splitter.ts:182-192, `for (const boundary of boundaries)`
BoundsLoop(boundaries, totalPages) ==
    Concat([k \in 1..Len(boundaries) |-> BoundsCheck(boundaries[k], totalPages)])

\* no call of validateBoundaries has produced a report
NoReport == [valid |-> FALSE, errors |-> <<Err("not-run", <<>>)>>]

validateBoundaries(boundaries, totalPages) ==
    LET errors == GapLoop(boundaries, 0) \o BoundsLoop(boundaries, totalPages)
    IN  [valid |-> Len(errors) = 0, errors |-> errors]

(***************************************************************************)
(* detectDocumentBoundaries(elements, anthropicApiKey)                     *)
(*                                        document-decomposer.ts:48-186    *)
(***************************************************************************)
\* the number a missing numeric field yields in arithmetic: `undefined - 1`,
\* `Math.max(1, undefined)` are NaN; every comparison with NaN is false
NaN == -9999
\* Math.max() of no arguments
MinusInfinity == -10000

\* document-decomposer.ts:25, the closed union of DocumentBoundary.document_type
DocumentTypes ==
    {"police-report", "email", "sms", "photo", "memo", "court-filing",
     "medical-record", "other"}

\* an UnstructuredElement; page_number 0 stands for metadata without page_number
Element(type, text, page) == [type |-> type, text |-> text, page_number |-> page]

\* the page number as the metadata carries it, without a default
PageNumberAsIs(element) == element.page_number

\* document-decomposer.ts:195  `element.metadata?.page_number || 1`
PageOf(element) == IF element.page_number = 0 THEN 1 ELSE element.page_number

\* document-decomposer.ts:194-200, the for-of loop: groups after the elements
\* still to come have been pushed, each to the group of its page, which is
\* created empty when the page is met for the first time
RECURSIVE GroupLoop(_, _)
GroupLoop(groups, elements) ==
    IF elements = <<>> THEN groups
    ELSE LET element == Head(elements)
             page == PageOf(element)
             withPage == IF page \in DOMAIN groups THEN groups
                         ELSE groups @@ (page :> <<>>)
         IN  GroupLoop([withPage EXCEPT ![page] = Append(@, element)], Tail(elements))

\* document-decomposer.ts:191-203: a record keyed by page, each group in input order
groupElementsByPage(elements) == GroupLoop(<<>>, elements)

\* Math.max(...xs)
MathMax(S) == IF S = {} THEN MinusInfinity ELSE CHOOSE m \in S : \A x \in S : x <= m

\* the number of pages that carry elements, in place of the largest page number
PageCountAsKeyCount(pageGroups) == Cardinality(DOMAIN pageGroups)

\* document-decomposer.ts:56  Math.max(...Object.keys(pageGroups).map(Number))
PageCount(pageGroups) == MathMax(DOMAIN pageGroups)

\* document-decomposer.ts:59-60  Object.entries(pageGroups).sort(([a], [b]) =>
\* Number(a) - Number(b)): the keys in ascending numeric order
RECURSIVE SortedKeys(_)
SortedKeys(keys) ==
    IF keys = {} THEN <<>>
    ELSE LET least == CHOOSE k \in keys : \A x \in keys : k <= x
         IN  <<least>> \o SortedKeys(keys \ {least})

\* document-decomposer.ts:62-63  els.filter(e => e.type === type).map(e => e.text)
TextsOfType(els, type) ==
    LET chosen == SelectSeq(els, LAMBDA e : e.type = type)
    IN  [k \in 1..Len(chosen) |-> chosen[k].text]

\* document-decomposer.ts:64  els.find(e => e.type === 'NarrativeText')?.text || ''
FirstParagraph(els) ==
    LET I == {k \in 1..Len(els) : els[k].type = "NarrativeText"}
    IN  IF I = {} THEN <<>>
        ELSE els[CHOOSE k \in I : \A j \in I : k <= j].text

\* document-decomposer.ts:70  the 200 of .slice(0, 200)
PreviewLimit == 200

\* a preview that is the whole paragraph
PreviewUncut(firstParagraph) == firstParagraph

\* document-decomposer.ts:70  firstParagraph.slice(0, 200)
Preview(firstParagraph) ==
    SubSeq(firstParagraph, 1, Min2(PreviewLimit, Len(firstParagraph)))

\* document-decomposer.ts:61-72, the entry of one page
SummaryEntry(page, els) ==
    [page |-> page,
     titles |-> TextsOfType(els, "Title"),
     headers |-> TextsOfType(els, "Header"),
     preview |-> Preview(FirstParagraph(els))]

\* document-decomposer.ts:58-72  pageSummary
PageSummary(pageGroups) ==
    LET pages == SortedKeys(DOMAIN pageGroups)
    IN  [i \in 1..Len(pages) |-> SummaryEntry(pages[i], pageGroups[pages[i]])]

\* a boundary object as the oracle's JSON carries it; confidence in hundredths;
\* start_page = NaN stands for an object without a numeric start_page; a title is
\* a sequence of characters
Boundary(s, e, type, title, conf) ==
    [start_page |-> s, end_page |-> e, document_type |-> type,
     title |-> title, confidence |-> conf]

\* document-decomposer.ts:177-184, the fallback list (confidence 0.1 = 10/100)
UnprocessedTitle ==
    <<"U", "n", "p", "r", "o", "c", "e", "s", "s", "e", "d", " ",
      "D", "o", "c", "u", "m", "e", "n", "t", " ", "B", "u", "n", "d", "l", "e">>

FallbackBoundaries(pageCount) ==
    <<Boundary(1, pageCount, "other", UnprocessedTitle, 10)>>

(***************************************************************************)
(* The response text, as a sequence of lexical units: the fence opening    *)
(* "```json\n", the fence closing "\n```", "[", "]", a JSON object (item)  *)
(* and prose. Items inside an array are understood to be comma-separated.  *)
(***************************************************************************)
NoItem == Boundary(0, 0, "", <<>>, 0)
Tok(t) == [t |-> t, v |-> NoItem]
ItemTok(x) == [t |-> "item", v |-> x]

\* smallest index >= from of a unit of kind t, or 0
FirstIndex(text, t, from) ==
    LET I == {i \in from..Len(text) : text[i].t = t}
    IN  IF I = {} THEN 0 ELSE CHOOSE i \in I : \A j \in I : i <= j

\* largest index of a unit of kind t, or 0
LastIndex(text, t) ==
    LET I == {i \in 1..Len(text) : text[i].t = t}
    IN  IF I = {} THEN 0 ELSE CHOOSE i \in I : \A j \in I : i >= j

\* document-decomposer.ts:157-158
\*   responseText.match(/```json\n([\s\S]*?)\n```/) || responseText.match(/\[[\s\S]*\]/)
\*   jsonText = jsonMatch ? (jsonMatch[1] || jsonMatch[0]) : responseText
\* the first pattern is lazy (first opening fence to the first closing fence after
\* it; an empty group 1 is falsy and gives the whole match), the second is greedy
\* (first "[" to the last "]")
ExtractJsonText(responseText) ==
    LET fo == FirstIndex(responseText, "fence_open", 1)
        fc == IF fo = 0 THEN 0 ELSE FirstIndex(responseText, "fence_close", fo + 1)
        lb == FirstIndex(responseText, "[", 1)
        rb == LastIndex(responseText, "]")
    IN  IF fc # 0
        THEN IF fc > fo + 1 THEN SubSeq(responseText, fo + 1, fc - 1)
                            ELSE SubSeq(responseText, fo, fc)
        ELSE IF lb # 0 /\ rb > lb THEN SubSeq(responseText, lb, rb)
        ELSE responseText

\* document-decomposer.ts:160  JSON.parse(jsonText), on texts whose arrays are flat:
\* one object, or "[" objects "]", parses; anything else is a SyntaxError
JSONparse(jsonText) ==
    LET n == Len(jsonText) IN
    IF n = 1 /\ jsonText[1].t = "item"
    THEN [ok |-> TRUE, isArray |-> FALSE, items |-> <<jsonText[1].v>>]
    ELSE IF /\ n >= 2
            /\ jsonText[1].t = "["
            /\ jsonText[n].t = "]"
            /\ \A i \in 2..n - 1 : jsonText[i].t = "item"
    THEN [ok |-> TRUE, isArray |-> TRUE,
          items |-> [i \in 1..n - 2 |-> jsonText[i + 1].v]]
    ELSE [ok |-> FALSE, isArray |-> FALSE, items |-> <<>>]

\* document-decomposer.ts:163  (a, b) => a.start_page - b.start_page; a NaN
\* result counts as +0 (ECMAScript SortCompare)
SortCompare(a, b) ==
    IF a.start_page = NaN \/ b.start_page = NaN THEN 0
    ELSE a.start_page - b.start_page

\* x inserted behind the last element that does not compare greater than x
RECURSIVE InsertSorted(_, _)
InsertSorted(sorted, x) ==
    IF Len(sorted) = 0 THEN <<x>>
    ELSE IF SortCompare(sorted[Len(sorted)], x) > 0
    THEN Append(InsertSorted(SubSeq(sorted, 1, Len(sorted) - 1), x),
                sorted[Len(sorted)])
    ELSE Append(sorted, x)

RECURSIVE SortFrom(_, _)
SortFrom(sorted, rest) ==
    IF Len(rest) = 0 THEN sorted
    ELSE SortFrom(InsertSorted(sorted, Head(rest)), Tail(rest))

\* document-decomposer.ts:163  boundaries.sort(...): Array.prototype.sort is a
\* stable comparison sort
SortByStartPage(boundaries) == SortFrom(<<>>, boundaries)

\* document-decomposer.ts:154-172, the body of the try block after the oracle
\* answered: threw = an exception reaches the catch (SyntaxError of JSON.parse,
\* TypeError of `.sort` on a value that is no array). The overlap loop of lines
\* 166-170 only logs.
ParseResponse(responseText) ==
    LET parsed == JSONparse(ExtractJsonText(responseText))
    IN  IF ~parsed.ok \/ ~parsed.isArray
        THEN [threw |-> TRUE, boundaries |-> <<>>]
        ELSE [threw |-> FALSE, boundaries |-> SortByStartPage(parsed.items)]

\* document-decomposer.ts:154  a first content block that is no text block gives ''
ResponseText(oracle) == IF oracle.kind = "text" THEN oracle.text ELSE <<>>

\* the whole call: the list it returns (it has no path that raises)
detectDocumentBoundaries(elements, oracle) ==
    LET pageCount == PageCount(groupElementsByPage(elements))
        r == ParseResponse(ResponseText(oracle))
    IN  IF oracle.kind = "throws" \/ r.threw
        THEN FallbackBoundaries(pageCount)
        ELSE r.boundaries

(***************************************************************************)
(* What the oracle can do: the call throws (network error, API error,      *)
(* timeout), the first content block is no text block, or a text comes     *)
(* back. The texts are the shapes below around every list of at most       *)
(* MaxItems objects.                                                       *)
(***************************************************************************)
Items ==
    {Boundary(1, 1, "police-report", <<"R", "e", "p", "o", "r", "t">>, 95),
     Boundary(2, 3, "email", <<"R", "e", ":", " ", "H", "i">>, 90),
     Boundary(3, 2, "banana", <<"?">>, 700),
     Boundary(NaN, 2, "memo", <<"M", "e", "m", "o">>, 50)}

ArrayText(xs) == <<Tok("[")>> \o [i \in 1..Len(xs) |-> ItemTok(xs[i])] \o <<Tok("]")>>

ResponseShapes(xs) ==
    {\* the array alone
     ArrayText(xs),
     \* the array in a ```json fence, as the prompt asks
     <<Tok("fence_open")>> \o ArrayText(xs) \o <<Tok("fence_close")>>,
     \* the fenced array inside prose
     <<Tok("prose"), Tok("fence_open")>> \o ArrayText(xs)
         \o <<Tok("fence_close"), Tok("prose")>>,
     \* the bare array inside prose
     <<Tok("prose")>> \o ArrayText(xs) \o <<Tok("prose")>>,
     \* prose that itself holds brackets, before the array
     <<Tok("["), Tok("prose"), Tok("]")>> \o ArrayText(xs),
     \* a response cut off by max_tokens
     <<Tok("fence_open"), Tok("[")>> \o [i \in 1..Len(xs) |-> ItemTok(xs[i])],
     \* one object instead of an array, or a refusal when there is none
     IF Len(xs) = 0 THEN <<Tok("prose")>> ELSE <<ItemTok(xs[1])>>,
     \* an empty fence
     <<Tok("fence_open"), Tok("fence_close")>>}

ResponseTexts == UNION {ResponseShapes(xs) : xs \in SeqsUpTo(Items, MaxItems)}

OracleOutcome(kind, text) == [kind |-> kind, text |-> text]

OracleOutcomes ==
    {OracleOutcome("throws", <<>>), OracleOutcome("nontext", <<>>)}
    \cup {OracleOutcome("text", t) : t \in ResponseTexts}

DIdle ==
    /\ dpc = "idle"
    /\ dElements = <<>>
    /\ dOracle = OracleOutcome("pending", <<>>)
    /\ dResult = <<>>
    /\ dResult2 = <<>>

(***************************************************************************)
(* splitPDF(sourcePdfBytes, boundaries)            pdf-splitter.ts:21-78   *)
(* The source PDF is its page count; an artifact's bytes are the page      *)
(* numbers of the source pages copied into it, in order.                   *)
(***************************************************************************)
\* Math.max(a, b) and Math.min(a, b): NaN when an argument is NaN
JsMax(a, b) == IF a = NaN \/ b = NaN THEN NaN ELSE Max2(a, b)
JsMin(a, b) == IF a = NaN \/ b = NaN THEN NaN ELSE Min2(a, b)

\* pdf-splitter.ts:37-38
ClampedStart(boundary) == JsMax(1, boundary.start_page)
ClampedEnd(boundary, totalPages) == JsMin(totalPages, boundary.end_page)

\* >= in place of >: a range of one page counts as empty
RangeIsEmptyOrSingle(startPage, endPage) ==
    startPage # NaN /\ endPage # NaN /\ startPage >= endPage

\* pdf-splitter.ts:40  `startPage > endPage`, false when either side is NaN
RangeIsEmpty(startPage, endPage) ==
    startPage # NaN /\ endPage # NaN /\ startPage > endPage

\* 1-based page numbers handed to copyPages, which takes 0-based indices
PagesToCopyOneBased(startPage, endPage) ==
    IF startPage = NaN \/ endPage = NaN THEN <<>>
    ELSE [i \in 1..(endPage - startPage + 1) |-> startPage + (i - 1)]

\* pdf-splitter.ts:47-50  Array.from({ length: endPage - startPage + 1 },
\* (_, i) => startPage - 1 + i): 0-based page indices; a NaN length is length 0
PagesToCopy(startPage, endPage) ==
    IF startPage = NaN \/ endPage = NaN THEN <<>>
    ELSE [i \in 1..(endPage - startPage + 1) |-> startPage - 1 + (i - 1)]

\* pdf-splitter.ts:70  endPage - startPage + 1
PageCountOfRange(startPage, endPage) ==
    IF startPage = NaN \/ endPage = NaN THEN NaN ELSE endPage - startPage + 1

(***************************************************************************)
(* Strings of file names are sequences of one-character strings.           *)
(***************************************************************************)
UpperCase ==
    <<"A", "B", "C", "D", "E", "F", "G", "H", "I", "J", "K", "L", "M",
      "N", "O", "P", "Q", "R", "S", "T", "U", "V", "W", "X", "Y", "Z">>
LowerCase ==
    <<"a", "b", "c", "d", "e", "f", "g", "h", "i", "j", "k", "l", "m",
      "n", "o", "p", "q", "r", "s", "t", "u", "v", "w", "x", "y", "z">>
DigitChars == <<"0", "1", "2", "3", "4", "5", "6", "7", "8", "9">>

\* the characters of the class [a-z0-9._-]
FileNameChars ==
    {LowerCase[i] : i \in 1..26} \cup {DigitChars[i] : i \in 1..10}
        \cup {".", "_", "-"}

\* pdf-splitter.ts:151  .toLowerCase()
toLowerCase(str) ==
    [i \in 1..Len(str) |->
        IF \E k \in 1..26 : UpperCase[k] = str[i]
        THEN LowerCase[CHOOSE k \in 1..26 : UpperCase[k] = str[i]]
        ELSE str[i]]

\* l followed by r, as one run where a run of x ends l and another begins r
JoinRuns(l, r, x) ==
    IF l[Len(l)] = x /\ r[1] = x THEN l \o Tail(r) ELSE l \o r

\* every maximal run of the character x in str reduced to a single x
RECURSIVE CollapseRuns(_, _)
CollapseRuns(str, x) ==
    IF Len(str) <= 1 THEN str
    ELSE JoinRuns(CollapseRuns(SubSeq(str, 1, Len(str) \div 2), x),
                  CollapseRuns(SubSeq(str, Len(str) \div 2 + 1, Len(str)), x), x)

\* a character outside the class [a-z0-9._-], whichever it is
Invalid == "invalid"

\* pdf-splitter.ts:152  .replace(/[^a-z0-9._-]+/g, '-'): every maximal run of
\* characters outside the class becomes one '-'
ReplaceInvalidRuns(str) ==
    LET marked == [i \in 1..Len(str) |->
                      IF str[i] \in FileNameChars THEN str[i] ELSE Invalid]
        runs == CollapseRuns(marked, Invalid)
    IN  [i \in 1..Len(runs) |-> IF runs[i] = Invalid THEN "-" ELSE runs[i]]

\* pdf-splitter.ts:153  .replace(/^-+|-+$/g, ''): the dashes at the two ends of
\* the whole string
StripDashes(str) ==
    LET I == {i \in 1..Len(str) : str[i] # "-"}
    IN  IF I = {} THEN <<>>
        ELSE SubSeq(str, CHOOSE i \in I : \A j \in I : i <= j,
                         CHOOSE i \in I : \A j \in I : i >= j)

\* pdf-splitter.ts:154  .replace(/-{2,}/g, '-')
CollapseDashes(str) == CollapseRuns(str, "-")

\* pdf-splitter.ts:155  the length limit of .slice(0, 200)
SliceLimit == 200

\* pdf-splitter.ts:155  .slice(0, 200)
Slice(str) == SubSeq(str, 1, Min2(SliceLimit, Len(str)))

\* pdf-splitter.ts:149-156
sanitizeFileName(fileName) ==
    Slice(CollapseDashes(StripDashes(ReplaceInvalidRuns(toLowerCase(fileName)))))

\* the decimal digits of n >= 0
RECURSIVE Digits(_)
Digits(n) ==
    IF n < 10 THEN <<DigitChars[n + 1]>>
    ELSE Digits(n \div 10) \o <<DigitChars[(n % 10) + 1]>>

\* `${n}` of a template literal: Number.prototype.toString
NumberToString(n) ==
    IF n = NaN THEN <<"N", "a", "N">>
    ELSE IF n < 0 THEN <<"-">> \o Digits(0 - n)
    ELSE Digits(n)

\* the characters of a document_type value
TypeChars(type) ==
    CASE type = "police-report" ->
            <<"p", "o", "l", "i", "c", "e", "-", "r", "e", "p", "o", "r", "t">>
      [] type = "email" -> <<"e", "m", "a", "i", "l">>
      [] type = "sms" -> <<"s", "m", "s">>
      [] type = "photo" -> <<"p", "h", "o", "t", "o">>
      [] type = "memo" -> <<"m", "e", "m", "o">>
      [] type = "court-filing" ->
            <<"c", "o", "u", "r", "t", "-", "f", "i", "l", "i", "n", "g">>
      [] type = "medical-record" ->
            <<"m", "e", "d", "i", "c", "a", "l", "-", "r", "e", "c", "o", "r", "d">>
      [] type = "other" -> <<"o", "t", "h", "e", "r">>
      [] type = "banana" -> <<"b", "a", "n", "a", "n", "a">>
      [] OTHER -> <<>>

\* pdf-splitter.ts:63  `${boundary.document_type}_${boundary.title}_p${startPage}-
\* ${endPage}.pdf`; a title is a sequence of characters
FileNameTemplate(boundary, startPage, endPage) ==
    TypeChars(boundary.document_type) \o <<"_">> \o boundary.title
        \o <<"_", "p">> \o NumberToString(startPage) \o <<"-">>
        \o NumberToString(endPage) \o <<".", "p", "d", "f">>

\* pdf-splitter.ts:62-64
SuggestedFileName(boundary, startPage, endPage) ==
    sanitizeFileName(FileNameTemplate(boundary, startPage, endPage))

\* a page that is no page of the source
BlankPage == 0

\* pdf-splitter.ts:52-59  copyPages, addPage, save: the pages of the new document,
\* as 1-based source page numbers; save() of a document without pages adds one
\* blank page
SavedPages(pagesToCopy) ==
    IF Len(pagesToCopy) = 0 THEN <<BlankPage>>
    ELSE [i \in 1..Len(pagesToCopy) |-> pagesToCopy[i] + 1]

\* pdf-splitter.ts:41  console.warn(`Invalid page range for boundary: ${startPage}-
\* ${endPage}`), the clamped numbers
SkipLog(startPage, endPage) ==
    <<[level |-> "warn", start |-> startPage, end |-> endPage]>>

\* a catch block that swallows the error
CatchSilently(boundary) == <<>>

\* pdf-splitter.ts:73  console.error(`Failed to split pages ${boundary.start_page}-
\* ${boundary.end_page}:`, error), the numbers of the boundary as given
CatchLog(boundary) ==
    <<[level |-> "error", start |-> boundary.start_page, end |-> boundary.end_page]>>

\* pdf-splitter.ts:32-74, one pass of the loop body: no result when the clamped
\* range is empty (continue) or when copying or saving throws (catch)
SplitOne(boundary, totalPages, throws) ==
    LET startPage == ClampedStart(boundary)
        endPage == ClampedEnd(boundary, totalPages)
        pagesToCopy == PagesToCopy(startPage, endPage)
    IN  IF RangeIsEmpty(startPage, endPage) \/ throws THEN <<>>
        ELSE <<[boundary |-> boundary,
                pdfBytes |-> SavedPages(pagesToCopy),
                suggestedFileName |-> SuggestedFileName(boundary, startPage, endPage),
                pageCount |-> PageCountOfRange(startPage, endPage)]>>

\* pdf-splitter.ts:26-77; failing = the positions whose copy or save throws
splitPDF(totalPages, boundaries, failing) ==
    Concat([k \in 1..Len(boundaries) |->
                SplitOne(boundaries[k], totalPages, k \in failing)])

(***************************************************************************)
(* splitPDFToR2                                   pdf-splitter.ts:111-144  *)
(***************************************************************************)
\* pdf-splitter.ts:122  `${r2Prefix}${result.suggestedFileName}`
R2Key(r2Prefix, result) == [prefix |-> r2Prefix, name |-> result.suggestedFileName]

\* pdf-splitter.ts:124-133, the object r2Bucket.put stores
R2Object(r2Prefix, result) ==
    [key |-> R2Key(r2Prefix, result),
     body |-> result.pdfBytes,
     document_type |-> result.boundary.document_type,
     page_range |-> <<result.boundary.start_page, result.boundary.end_page>>,
     confidence |-> result.boundary.confidence]

\* r2Bucket.put: the object replaces any object stored under the same key
BucketPut(objects, object) ==
    {o \in objects : o.key # object.key} \cup {object}

\* pdf-splitter.ts:135-138
UploadResult(r2Prefix, result) ==
    [boundary |-> result.boundary, r2Key |-> R2Key(r2Prefix, result)]

(***************************************************************************)
(* handleDecomposeDocument(input, env)                part_002:135-231     *)
(***************************************************************************)
\* splitting whenever a bucket is configured, whatever the caller asked for
ShouldSplitIgnoringInput(inp, r2Configured) == r2Configured

\* part_002:187  `input.autoSplit && env.DOCUMENTS_R2`
ShouldSplit(inp, r2Configured) == inp.autoSplit /\ r2Configured

\* part_002:189  the default prefix `decomposed/${sourceFileName}/`
R2Prefix == "decomposed/source/"

\* the part of a path behind its last '/': filePath.split('/').pop()
LastSegment(path) ==
    LET I == {i \in 1..Len(path) : path[i] = "/"}
        last == IF I = {} THEN 0 ELSE CHOOSE i \in I : \A j \in I : j <= i
    IN  SubSeq(path, last + 1, Len(path))

\* str.replace(sub, ''): the first occurrence of sub is taken out
RemoveFirst(str, sub) ==
    LET I == {i \in 1..Len(str) - Len(sub) + 1 : SubSeq(str, i, i + Len(sub) - 1) = sub}
    IN  IF I = {} THEN str
        ELSE LET i == CHOOSE a \in I : \A b \in I : a <= b
             IN  SubSeq(str, 1, i - 1) \o SubSeq(str, i + Len(sub), Len(str))

\* part_002:188  input.filePath.split('/').pop()?.replace('.pdf', '') || 'unknown'
SourceFileName(filePath) ==
    LET name == RemoveFirst(LastSegment(filePath), <<".", "p", "d", "f">>)
    IN  IF name = <<>> THEN <<"u", "n", "k", "n", "o", "w", "n">> ELSE name

\* part_002:189  input.outputPrefix || `decomposed/${sourceFileName}/`; an
\* outputPrefix that is absent or '' is the empty sequence
R2PrefixOf(filePath, outputPrefix) ==
    IF outputPrefix # <<>> THEN outputPrefix
    ELSE <<"d", "e", "c", "o", "m", "p", "o", "s", "e", "d", "/">>
            \o SourceFileName(filePath) \o <<"/">>

\* part_002:201-211, the compiled result; split_files is a key of it only when
\* input.autoSplit is set
CompileResult(inp, bounds, nElements, uploads) ==
    [total_pages |-> MathMax({bounds[k].end_page : k \in 1..Len(bounds)}),
     boundaries |-> bounds,
     unstructured_elements |-> nElements,
     has_split_files |-> inp.autoSplit,
     split_files |-> IF inp.autoSplit THEN uploads ELSE <<>>]

NoResult == CompileResult([detectOnly |-> FALSE, autoSplit |-> FALSE], <<>>, 0, <<>>)

\* part_002:251  `splitFiles?.[i]` beyond the end of the array: undefined
NoSplitFile == [boundary |-> NoItem, r2Key |-> [prefix |-> "", name |-> <<>>]]

\* part_002:236-284  formatDecompositionResult: the "Detected Document
\* Boundaries" section, one entry per boundary of the result in order; entry i
\* shows boundary i (249-256) and, under it, the r2Key of splitFiles[i] when
\* there is one (251, 265-267)
formatDecompositionResult(result, splitFiles) ==
    [i \in 1..Len(result.boundaries) |->
        [boundary |-> result.boundaries[i],
         splitFile |-> IF i <= Len(splitFiles) THEN splitFiles[i] ELSE NoSplitFile]]

\* part_002:216-221 and 223-229
NoResponse == [returned |-> FALSE, isError |-> FALSE, result |-> NoResult, text |-> <<>>]
OkResponse(result, splitFiles) ==
    [returned |-> TRUE, isError |-> FALSE, result |-> result,
     text |-> formatDecompositionResult(result, splitFiles)]
ErrorResponse == [returned |-> TRUE, isError |-> TRUE, result |-> NoResult, text |-> <<>>]

\* the oracle outcomes of a handler run: a failed call, or the fenced array the
\* prompt asks for
RunOracleOutcomes ==
    {OracleOutcome("throws", <<>>)}
    \cup {OracleOutcome("text",
                        <<Tok("fence_open")>> \o ArrayText(xs) \o <<Tok("fence_close")>>) :
            xs \in SeqsUpTo(Items, MaxRunItems)}

HIdle ==
    /\ hpc = "idle"
    /\ hInput = [detectOnly |-> FALSE, autoSplit |-> FALSE]
    /\ hHasR2 = FALSE
    /\ hPdfPages = 1
    /\ hElementCount = 0
    /\ hPageCount = 1
    /\ hBoundaries = <<>>
    /\ hValidation = NoReport
    /\ hSplitCalled = FALSE
    /\ hSplitResults = <<>>
    /\ hUploadResults = <<>>
    /\ hBucket = {}
    /\ hResponse = NoResponse

\* a validator that sorts the caller's array in place before it checks
ArrayAfterSortInPlace(boundaries) == SortByStartPage(boundaries)

\* pdf-splitter.ts:161-198: the caller's array after the call; no statement of the
\* function assigns to the array or to a field of one of its elements
ArrayAfterValidate(boundaries) == boundaries

SIdle ==
    /\ spc = "idle"
    /\ sTotalPages = 1
    /\ sBoundaries = <<>>
    /\ sIndex = 1
    /\ sResults = <<>>
    /\ sOrigin = <<>>
    /\ sFailed = {}
    /\ sLog = <<>>

NIdle ==
    /\ npc = "idle"
    /\ nTotalPages = 1
    /\ nBoundaries = <<>>
    /\ nResults = <<>>

CIdle ==
    /\ cRuns = <<>>
    /\ cBucket = {}

IIdle ==
    /\ ipc = "idle"
    /\ iElements = <<>>
    /\ iPageGroups = <<>>
    /\ iPageCount = 0
    /\ iPageSummary = <<>>

MIdle ==
    /\ mEnv = <<>>
    /\ mRequest = <<>>
    /\ mResponse = <<>>
    /\ mServed = 0

(***************************************************************************)
(* SpecValidate: one call of validateBoundaries on a caller-supplied list. *)
(* Page numbers range over 0..MaxPages+1 so that every range condition     *)
(* (start < 1, end > totalPages, start > end) can be violated.             *)
(***************************************************************************)
PageRange(s, e) == [start_page |-> s, end_page |-> e]

Ranges == {PageRange(s, e) : s \in 0..MaxPages + 1, e \in 0..MaxPages + 1}

VIdle ==
    /\ vpc = "idle"
    /\ vBoundaries = <<>>
    /\ vTotalPages = 1
    /\ vReport = NoReport
    /\ vArgAfter = <<>>

VInit ==
    /\ vpc = "input"
    /\ vBoundaries \in SeqsUpTo(Ranges, MaxLen)
    /\ vTotalPages \in 1..MaxPages
    /\ vReport = NoReport
    /\ vArgAfter = vBoundaries
    /\ DIdle
    /\ HIdle
    /\ SIdle
    /\ NIdle
    /\ CIdle
    /\ IIdle
    /\ MIdle

Validate ==
    /\ vpc = "input"
    /\ vReport' = validateBoundaries(vBoundaries, vTotalPages)
    /\ vArgAfter' = ArrayAfterValidate(vBoundaries)
    /\ vpc' = "done"
    /\ UNCHANGED <<vBoundaries, vTotalPages>>
    /\ UNCHANGED <<dvars, hvars, svars, nvars, cvars, ivars, mvars>>

VNext == Validate

SpecValidate == VInit /\ [][VNext]_vars

(***************************************************************************)
(* Properties of validateBoundaries.                                       *)
(***************************************************************************)
SortedByStart(s) ==
    \A i \in 1..Len(s) - 1 : s[i].start_page <= s[i + 1].start_page

\* first boundary starts at page 1, last ends at page n, neighbours are contiguous
IsExactPartition(s, n) ==
    /\ Len(s) >= 1
    /\ s[1].start_page = 1
    /\ s[Len(s)].end_page = n
    /\ \A i \in 1..Len(s) - 1 : s[i].end_page + 1 = s[i + 1].start_page

SortedIsExactPartition(B, n) ==
    \E S \in PermutationsOf(B) : SortedByStart(S) /\ IsExactPartition(S, n)

\* C1: validateBoundaries(B, N) returns valid = true if and only if B, sorted
\* ascending by start page, is an exact partition of pages 1..N (first start is 1,
\* last end is N, every adjacent pair has end + 1 = next start); in every other
\* case it returns valid = false with at least one error. Stated here for the
\* non-empty lists.
C1_ValidIffExactPartition ==
    (vpc = "done" /\ Len(vBoundaries) >= 1) =>
        /\ vReport.valid <=> SortedIsExactPartition(vBoundaries, vTotalPages)
        /\ ~vReport.valid => Len(vReport.errors) >= 1

\* C2: the verdict does not depend on the order in which the boundaries are
\* supplied: every permutation P of B gets the same valid flag as B.
C2_OrderIndependent ==
    vpc = "done" =>
        \A P \in PermutationsOf(vBoundaries) :
            validateBoundaries(P, vTotalPages).valid = vReport.valid

\* what the claim expects for the pair (boundaries[k], boundaries[k+1]), k 1-based
ExpectedPairErrors(B, k) ==
    LET cur == B[k]
        nxt == B[k + 1]
    IN  CASE cur.end_page + 1 = nxt.start_page -> <<>>
          [] cur.end_page + 1 < nxt.start_page ->
                <<Err("gap", <<cur.end_page + 1, nxt.start_page - 1>>)>>
          [] cur.end_page >= nxt.start_page ->
                <<Err("overlap", <<k - 1, cur.start_page, cur.end_page,
                                   k, nxt.start_page, nxt.end_page>>)>>

IsPairError(e) == e.kind \in {"gap", "overlap"}

\* C3: for every adjacent pair examined, exactly one of three outcomes holds: no
\* error when end + 1 = next start; exactly one gap error naming pages
\* end + 1 .. next start - 1 when end + 1 < next start; exactly one overlap error
\* carrying both page ranges when end >= next start.
C3_PairOutcome ==
    vpc = "done" =>
        SelectSeq(vReport.errors, IsPairError) =
            Concat([k \in 1..Len(vBoundaries) - 1 |->
                        ExpectedPairErrors(vBoundaries, k)])

\* the scenario of the claim scaled to the bounds: 1-1 and 3-3 report page 2,
\* and a touching pair (end = next start) reports an overlap
C3_Witness ==
    /\ vpc = "done"
    /\ vTotalPages = 3
    /\ vBoundaries = <<PageRange(1, 1), PageRange(3, 3)>>
    /\ vReport.errors = <<Err("gap", <<2, 2>>)>>

\* the violated conditions of the call, one element per condition
ViolatedConditions(B, n) ==
    {<<"start", k>> : k \in {j \in 1..Len(B) : B[j].start_page < 1}}
    \cup {<<"end", k>> : k \in {j \in 1..Len(B) : B[j].end_page > n}}
    \cup {<<"range", k>> :
            k \in {j \in 1..Len(B) : B[j].start_page > B[j].end_page}}
    \cup {<<"gap", k>> :
            k \in {j \in 1..Len(B) - 1 : B[j].end_page + 1 < B[j + 1].start_page}}
    \cup {<<"overlap", k>> :
            k \in {j \in 1..Len(B) - 1 : B[j].end_page >= B[j + 1].start_page}}

CountKind(errors, kind) ==
    Cardinality({i \in 1..Len(errors) : errors[i].kind = kind})

\* C4: every check is evaluated without short-circuiting: each violated range
\* condition of each boundary adds its own error, in addition to all gap and
\* overlap errors, so the number of errors equals the number of violated
\* conditions.
C4_NoShortCircuit ==
    vpc = "done" =>
        LET V == ViolatedConditions(vBoundaries, vTotalPages)
        IN  /\ Len(vReport.errors) = Cardinality(V)
            /\ \A kind \in {"start", "end", "range", "gap", "overlap"} :
                   CountKind(vReport.errors, kind)
                       = Cardinality({c \in V : c[1] = kind})
            /\ vReport.valid <=> V = {}

\* a boundary that breaks all three range conditions at once, next to an overlap
C4_Witness ==
    /\ vpc = "done"
    /\ Len(vBoundaries) = 2
    /\ vBoundaries[2].start_page < 1
    /\ vBoundaries[2].end_page > vTotalPages
    /\ vBoundaries[1].start_page > vBoundaries[1].end_page
    /\ CountKind(vReport.errors, "overlap") = 1
    /\ Len(vReport.errors) = 4

(***************************************************************************)
(* SpecDetect: one call of detectDocumentBoundaries, step by step, then a  *)
(* second call on the same elements with the same oracle outcome.          *)
(***************************************************************************)
DetectElements == {Element("Title", "t", p) : p \in 0..MaxPages}

DInit ==
    /\ dpc = "start"
    /\ dElements \in SeqsUpTo(DetectElements, MaxElems)
    /\ dOracle = OracleOutcome("pending", <<>>)
    /\ dResult = <<>>
    /\ dResult2 = <<>>
    /\ VIdle
    /\ HIdle
    /\ SIdle
    /\ NIdle
    /\ CIdle
    /\ IIdle
    /\ MIdle

\* document-decomposer.ts:145-152: messages.create rejects
DOracleThrows ==
    /\ dpc = "start"
    /\ dOracle' = OracleOutcome("throws", <<>>)
    /\ dpc' = "caught"
    /\ UNCHANGED <<dElements, dResult, dResult2>>
    /\ UNCHANGED <<vvars, hvars, svars, nvars, cvars, ivars, mvars>>

\* document-decomposer.ts:145-152: messages.create resolves
DOracleAnswers ==
    /\ dpc = "start"
    /\ \E o \in OracleOutcomes :
          /\ o.kind # "throws"
          /\ dOracle' = o
    /\ dpc' = "responded"
    /\ UNCHANGED <<dElements, dResult, dResult2>>
    /\ UNCHANGED <<vvars, hvars, svars, nvars, cvars, ivars, mvars>>

\* document-decomposer.ts:154-172: extract, parse, sort, return; or throw
DParse ==
    /\ dpc = "responded"
    /\ LET r == ParseResponse(ResponseText(dOracle))
       IN  IF r.threw
           THEN dpc' = "caught" /\ UNCHANGED dResult
           ELSE dpc' = "returned" /\ dResult' = r.boundaries
    /\ UNCHANGED <<dElements, dOracle, dResult2>>
    /\ UNCHANGED <<vvars, hvars, svars, nvars, cvars, ivars, mvars>>

\* document-decomposer.ts:173-185: the catch block
DFallback ==
    /\ dpc = "caught"
    /\ dResult' = FallbackBoundaries(PageCount(groupElementsByPage(dElements)))
    /\ dpc' = "returned"
    /\ UNCHANGED <<dElements, dOracle, dResult2>>
    /\ UNCHANGED <<vvars, hvars, svars, nvars, cvars, ivars, mvars>>

\* the caller runs detection again on identical input
DRerun ==
    /\ dpc = "returned"
    /\ dResult2' = detectDocumentBoundaries(dElements, dOracle)
    /\ dpc' = "rerun"
    /\ UNCHANGED <<dElements, dOracle, dResult>>
    /\ UNCHANGED <<vvars, hvars, svars, nvars, cvars, ivars, mvars>>

DNext == DOracleThrows \/ DOracleAnswers \/ DParse \/ DFallback \/ DRerun

SpecDetect == DInit /\ [][DNext]_vars

(***************************************************************************)
(* Properties of detectDocumentBoundaries.                                 *)
(***************************************************************************)
DReturned == dpc \in {"returned", "rerun"}

\* the largest page number among the elements, an element without one being on page 1
LargestPage(elements) ==
    LET P == {PageOf(elements[k]) : k \in 1..Len(elements)}
    IN  CHOOSE m \in P : \A x \in P : x <= m

\* the call failed, or what it answered is no JSON text
OracleFailedOrUnparseable ==
    \/ dOracle.kind = "throws"
    \/ /\ dOracle.kind \in {"text", "nontext"}
       /\ ~JSONparse(ExtractJsonText(ResponseText(dOracle))).ok

\* C7: if the oracle call fails or its response text cannot be parsed, the call
\* returns (no error reaches the caller) exactly one boundary: pages 1..N with N
\* the largest page number among the elements, type 'other', title 'Unprocessed
\* Document Bundle', confidence <= 0.1.
C7_FallbackOnFailure ==
    /\ dpc = "caught" => ENABLED DFallback
    /\ (DReturned /\ dElements # <<>> /\ OracleFailedOrUnparseable) =>
          /\ Len(dResult) = 1
          /\ dResult[1].start_page = 1
          /\ dResult[1].end_page = LargestPage(dElements)
          /\ dResult[1].document_type = "other"
          /\ dResult[1].title = UnprocessedTitle
          /\ dResult[1].confidence <= 10

\* an answer cut off before the array closes, for elements on pages 1 and 3
C7_Witness ==
    /\ dpc = "returned"
    /\ dOracle.kind = "text"
    /\ dOracle.text[1].t = "fence_open"
    /\ Len(dOracle.text) = 3
    /\ ~JSONparse(ExtractJsonText(dOracle.text)).ok
    /\ Len(dElements) = 2
    /\ dElements[1].page_number = 3
    /\ dElements[2].page_number = 0
    /\ dResult = FallbackBoundaries(3)

\* C8: for every non-empty element list and every oracle behaviour (failure, or
\* any response text, including one that parses to an empty array) the call
\* returns a list with at least one boundary.
C8_AtLeastOneBoundary ==
    (DReturned /\ dElements # <<>>) => Len(dResult) >= 1

IsValidBoundary(b) ==
    /\ b.start_page # NaN
    /\ b.end_page # NaN
    /\ b.start_page <= b.end_page
    /\ b.document_type \in DocumentTypes
    /\ b.confidence >= 0
    /\ b.confidence <= 100

\* C9: every element of the returned list is a valid boundary object: integer
\* start <= end, a document type of the closed enum, a confidence in [0,1]; a
\* response whose items are not valid boundary objects gives the fallback.
C9_OnlyValidBoundaries ==
    (DReturned /\ dElements # <<>>) =>
        \A i \in 1..Len(dResult) : IsValidBoundary(dResult[i])

\* C10: the returned list is sorted ascending by start page, and a second run on
\* the same elements with the same oracle response returns the identical list.
C10_SortedAndRepeatable ==
    /\ (DReturned /\ dElements # <<>>) =>
          \A i, j \in 1..Len(dResult) :
              (i < j /\ dResult[i].start_page # NaN /\ dResult[j].start_page # NaN)
                  => dResult[i].start_page <= dResult[j].start_page
    /\ dpc = "rerun" => dResult2 = dResult

\* an oracle request has been issued: messages.create was called and settled
OracleRequested == dOracle.kind # "pending"

\* C11: when the element sequence is empty, decomposition fails before any call
\* to the oracle: no oracle request is issued in a run whose element list is
\* empty, and no boundary list is returned.
C11_EmptyInputAbortsBeforeOracle ==
    dElements = <<>> => (~OracleRequested /\ ~DReturned)

(***************************************************************************)
(* Spec: one run of the tool handler handleDecomposeDocument. The schema   *)
(* (part_002:22-46) lets detectOnly and autoSplit be set independently.    *)
(***************************************************************************)
Init ==
    /\ hpc = "start"
    /\ hInput \in [detectOnly : BOOLEAN, autoSplit : BOOLEAN]
    /\ hHasR2 \in BOOLEAN
    /\ hPdfPages = 1
    /\ hElementCount = 0
    /\ hPageCount = 1
    /\ hBoundaries = <<>>
    /\ hValidation = NoReport
    /\ hSplitCalled = FALSE
    /\ hSplitResults = <<>>
    /\ hUploadResults = <<>>
    /\ hBucket = {}
    /\ hResponse = NoResponse
    /\ VIdle
    /\ DIdle
    /\ SIdle
    /\ NIdle
    /\ CIdle
    /\ IIdle
    /\ MIdle

\* part_002:222-230, the catch block: whatever was stored stays stored
Fails ==
    /\ hResponse' = ErrorResponse
    /\ hpc' = "done"

\* part_002:147-148  fs.readFile resolves
ReadFile ==
    /\ hpc = "start"
    /\ hPdfPages' \in 1..MaxPages
    /\ hpc' = "read"
    /\ UNCHANGED <<hInput, hHasR2, hElementCount, hPageCount, hBoundaries,
                   hValidation, hSplitCalled, hSplitResults, hUploadResults,
                   hBucket, hResponse>>
    /\ UNCHANGED <<vvars, dvars, svars, nvars, cvars, ivars, mvars>>

\* part_002:147-148  fs.readFile rejects
ReadFileFails ==
    /\ hpc = "start"
    /\ Fails
    /\ UNCHANGED <<hInput, hHasR2, hPdfPages, hElementCount, hPageCount,
                   hBoundaries, hValidation, hSplitCalled, hSplitResults,
                   hUploadResults, hBucket>>
    /\ UNCHANGED <<vvars, dvars, svars, nvars, cvars, ivars, mvars>>

\* part_002:161-176  the partition request rejects or its answer does not parse
PartitionFails ==
    /\ hpc = "read"
    /\ Fails
    /\ UNCHANGED <<hInput, hHasR2, hPdfPages, hElementCount, hPageCount,
                   hBoundaries, hValidation, hSplitCalled, hSplitResults,
                   hUploadResults, hBucket>>
    /\ UNCHANGED <<vvars, dvars, svars, nvars, cvars, ivars, mvars>>

\* part_002:161-187  the partition request answers with the elements of the PDF
\* (none of them beyond its last page) and detection runs on them; the handler
\* goes on with the boundaries and elements.length
PartitionAndDetect ==
    /\ hpc = "read"
    /\ \E elements \in SeqsUpTo(DetectElements, MaxElems), o \in RunOracleOutcomes :
          /\ \A k \in 1..Len(elements) : PageOf(elements[k]) <= hPdfPages
          /\ hBoundaries' = detectDocumentBoundaries(elements, o)
          /\ hElementCount' = Len(elements)
          /\ hPageCount' = PageCount(groupElementsByPage(elements))
    /\ hpc' = IF ShouldSplit(hInput, hHasR2) THEN "split" ELSE "compile"
    /\ UNCHANGED <<hInput, hHasR2, hPdfPages, hValidation, hSplitCalled,
                   hSplitResults, hUploadResults, hBucket, hResponse>>
    /\ UNCHANGED <<vvars, dvars, svars, nvars, cvars, ivars, mvars>>

\* part_002:191-197 with pdf-splitter.ts:117: splitPDFToR2 is called and splitPDF
\* returns its results
Split ==
    /\ hpc = "split"
    /\ hSplitCalled' = TRUE
    /\ \E failing \in SUBSET (1..Len(hBoundaries)) :
          hSplitResults' = splitPDF(hPdfPages, hBoundaries, failing)
    /\ hpc' = "upload"
    /\ UNCHANGED <<hInput, hHasR2, hPdfPages, hElementCount, hPageCount,
                   hBoundaries, hValidation, hUploadResults, hBucket, hResponse>>
    /\ UNCHANGED <<vvars, dvars, svars, nvars, cvars, ivars, mvars>>

\* pdf-splitter.ts:26  PDFDocument.load rejects (an encrypted or damaged file)
SplitLoadFails ==
    /\ hpc = "split"
    /\ hSplitCalled' = TRUE
    /\ Fails
    /\ UNCHANGED <<hInput, hHasR2, hPdfPages, hElementCount, hPageCount,
                   hBoundaries, hValidation, hSplitResults, hUploadResults, hBucket>>
    /\ UNCHANGED <<vvars, dvars, svars, nvars, cvars, ivars, mvars>>

\* pdf-splitter.ts:121-141, one pass of the upload loop
Put ==
    /\ hpc = "upload"
    /\ Len(hUploadResults) < Len(hSplitResults)
    /\ LET result == hSplitResults[Len(hUploadResults) + 1]
       IN  /\ hBucket' = BucketPut(hBucket, R2Object(R2Prefix, result))
           /\ hUploadResults' = Append(hUploadResults, UploadResult(R2Prefix, result))
    /\ UNCHANGED <<hpc, hInput, hHasR2, hPdfPages, hElementCount, hPageCount,
                   hBoundaries, hValidation, hSplitCalled, hSplitResults, hResponse>>
    /\ UNCHANGED <<vvars, dvars, svars, nvars, cvars, ivars, mvars>>

\* pdf-splitter.ts:124  r2Bucket.put rejects
PutFails ==
    /\ hpc = "upload"
    /\ Len(hUploadResults) < Len(hSplitResults)
    /\ Fails
    /\ UNCHANGED <<hInput, hHasR2, hPdfPages, hElementCount, hPageCount,
                   hBoundaries, hValidation, hSplitCalled, hSplitResults,
                   hUploadResults, hBucket>>
    /\ UNCHANGED <<vvars, dvars, svars, nvars, cvars, ivars, mvars>>

\* part_002:200-221, once splitting was skipped or splitPDFToR2 has returned
Compile ==
    /\ \/ hpc = "compile"
       \/ hpc = "upload" /\ Len(hUploadResults) = Len(hSplitResults)
    /\ hResponse' = OkResponse(CompileResult(hInput, hBoundaries, hElementCount,
                                             hUploadResults),
                               hUploadResults)
    /\ hpc' = "done"
    /\ UNCHANGED <<hInput, hHasR2, hPdfPages, hElementCount, hPageCount,
                   hBoundaries, hValidation, hSplitCalled, hSplitResults,
                   hUploadResults, hBucket>>
    /\ UNCHANGED <<vvars, dvars, svars, nvars, cvars, ivars, mvars>>

Next ==
    \/ ReadFile
    \/ ReadFileFails
    \/ PartitionFails
    \/ PartitionAndDetect
    \/ Split
    \/ SplitLoadFails
    \/ Put
    \/ PutFails
    \/ Compile

Spec == Init /\ [][Next]_vars

(***************************************************************************)
(* Properties of handleDecomposeDocument.                                  *)
(***************************************************************************)
\* C5: splitting is gated: the PDF splitter is invoked only if the validator
\* reported valid = true for the detected list, or the caller explicitly opted
\* to split (autoSplit). The handler never calls the validator, so every split
\* rests on the caller's autoSplit.
C5_SplitIsGated ==
    hSplitCalled => (hValidation.valid \/ hInput.autoSplit)

\* the caller opted to split and a structurally invalid list (start 3 > end 2)
\* was split and uploaded all the same
C5_Witness ==
    /\ hSplitCalled
    /\ hInput.autoSplit
    /\ Len(hBoundaries) = 2
    /\ \A k \in 1..Len(hBoundaries) : hBoundaries[k].start_page # NaN
    /\ ~validateBoundaries(hBoundaries, hPdfPages).valid
    /\ Cardinality(hBucket) = 1
    /\ hpc = "done"

\* C6: with detectOnly = true no PDF is split, nothing is uploaded, and the
\* returned manifest holds the detected boundaries without split files (an empty
\* split_files list counts as none).
C6_DetectOnlySplitsNothing ==
    hInput.detectOnly =>
        /\ ~hSplitCalled
        /\ hBucket = {}
        /\ (hResponse.returned /\ ~hResponse.isError) =>
              /\ hResponse.result.boundaries = hBoundaries
              /\ hResponse.result.split_files = <<>>

(***************************************************************************)
(* SpecSplit: one call of splitPDF, one pass of its loop at a time. The    *)
(* boundaries are what the callers hand over: any page numbers around the  *)
(* source's range, and an object without start_page.                       *)
(***************************************************************************)
\* largest page count of a source PDF handed to splitPDF
MaxSplitPages == 2
\* longest boundary list handed to splitPDF
MaxSplitLen == 2

SplitBoundaries(totalPages) ==
    {Boundary(st, en, "email", <<"a">>, 90) :
        st \in 0..totalPages + 1, en \in 0..totalPages + 1}
    \cup {Boundary(NaN, 1, "memo", <<"m">>, 50)}

SInit ==
    /\ spc = "start"
    /\ sTotalPages \in 1..MaxSplitPages
    /\ sBoundaries \in SeqsUpTo(SplitBoundaries(sTotalPages), MaxSplitLen)
    /\ sIndex = 1
    /\ sResults = <<>>
    /\ sOrigin = <<>>
    /\ sFailed = {}
    /\ sLog = <<>>
    /\ VIdle
    /\ DIdle
    /\ HIdle
    /\ NIdle
    /\ CIdle
    /\ IIdle
    /\ MIdle

\* pdf-splitter.ts:26-29  PDFDocument.load resolves
SLoad ==
    /\ spc = "start"
    /\ spc' = "loop"
    /\ UNCHANGED <<sTotalPages, sBoundaries, sIndex, sResults, sOrigin, sFailed, sLog>>
    /\ UNCHANGED <<vvars, dvars, hvars, nvars, cvars, ivars, mvars>>

\* pdf-splitter.ts:26  PDFDocument.load rejects: the call rejects
SLoadFails ==
    /\ spc = "start"
    /\ spc' = "threw"
    /\ UNCHANGED <<sTotalPages, sBoundaries, sIndex, sResults, sOrigin, sFailed, sLog>>
    /\ UNCHANGED <<vvars, dvars, hvars, nvars, cvars, ivars, mvars>>

\* pdf-splitter.ts:37-43  the clamped range is empty: warn and continue
SSkip ==
    /\ spc = "loop"
    /\ sIndex <= Len(sBoundaries)
    /\ LET boundary == sBoundaries[sIndex]
           startPage == ClampedStart(boundary)
           endPage == ClampedEnd(boundary, sTotalPages)
       IN  /\ RangeIsEmpty(startPage, endPage)
           /\ sResults' = sResults \o SplitOne(boundary, sTotalPages, FALSE)
           /\ sLog' = sLog \o SkipLog(startPage, endPage)
    /\ sIndex' = sIndex + 1
    /\ UNCHANGED <<spc, sTotalPages, sBoundaries, sOrigin, sFailed>>
    /\ UNCHANGED <<vvars, dvars, hvars, nvars, cvars, ivars, mvars>>

\* pdf-splitter.ts:45-71  pages copied, document saved, result pushed
SPush ==
    /\ spc = "loop"
    /\ sIndex <= Len(sBoundaries)
    /\ LET boundary == sBoundaries[sIndex]
       IN  /\ ~RangeIsEmpty(ClampedStart(boundary), ClampedEnd(boundary, sTotalPages))
           /\ sResults' = sResults \o SplitOne(boundary, sTotalPages, FALSE)
    /\ sOrigin' = Append(sOrigin, sIndex)
    /\ sIndex' = sIndex + 1
    /\ UNCHANGED <<spc, sTotalPages, sBoundaries, sFailed, sLog>>
    /\ UNCHANGED <<vvars, dvars, hvars, nvars, cvars, ivars, mvars>>

\* pdf-splitter.ts:52-59, 72-74  copyPages or save throws: the catch block logs
\* and the loop goes on
SThrow ==
    /\ spc = "loop"
    /\ sIndex <= Len(sBoundaries)
    /\ LET boundary == sBoundaries[sIndex]
       IN  /\ ~RangeIsEmpty(ClampedStart(boundary), ClampedEnd(boundary, sTotalPages))
           /\ sResults' = sResults \o SplitOne(boundary, sTotalPages, TRUE)
           /\ sLog' = sLog \o CatchLog(boundary)
    /\ sFailed' = sFailed \cup {sIndex}
    /\ sIndex' = sIndex + 1
    /\ UNCHANGED <<spc, sTotalPages, sBoundaries, sOrigin>>
    /\ UNCHANGED <<vvars, dvars, hvars, nvars, cvars, ivars, mvars>>

\* pdf-splitter.ts:77  return results
SReturn ==
    /\ spc = "loop"
    /\ sIndex > Len(sBoundaries)
    /\ spc' = "returned"
    /\ UNCHANGED <<sTotalPages, sBoundaries, sIndex, sResults, sOrigin, sFailed, sLog>>
    /\ UNCHANGED <<vvars, dvars, hvars, nvars, cvars, ivars, mvars>>

SNext == SLoad \/ SLoadFails \/ SSkip \/ SPush \/ SThrow \/ SReturn

SpecSplit == SInit /\ [][SNext]_vars

(***************************************************************************)
(* Properties of splitPDF.                                                 *)
(***************************************************************************)
\* the clamped range of the claims: start' = max(1, start), end' = min(N, end)
ClampStart(b) == Max2(1, b.start_page)
ClampEnd(b, n) == Min2(n, b.end_page)

\* the boundary carries page numbers and its clamped range has start' > end'
ClampsToNothing(b, n) == b.start_page # NaN /\ ClampStart(b) > ClampEnd(b, n)

\* how often boundary position k is the origin of a result
TimesProduced(k) == Cardinality({j \in 1..Len(sOrigin) : sOrigin[j] = k})

\* C12: for each boundary splitPDF works on the clamped range; when start' > end'
\* the boundary yields no artifact, and the skip never aborts the run: every
\* other boundary of the list is still processed and, unless its own page copy
\* fails, its artifact is returned.
C12_SkipNeverAborts ==
    spc \in {"loop", "returned"} =>
        /\ spc = "returned" => sIndex = Len(sBoundaries) + 1
        /\ Len(sOrigin) = Len(sResults)
        /\ \A k \in 1..sIndex - 1 :
              IF ClampsToNothing(sBoundaries[k], sTotalPages)
              THEN TimesProduced(k) = 0
              ELSE \/ k \in sFailed /\ TimesProduced(k) = 0
                   \/ /\ TimesProduced(k) = 1
                      /\ \E j \in 1..Len(sResults) :
                            sOrigin[j] = k /\ sResults[j].boundary = sBoundaries[k]

\* pages 3-3 of a two-page source are skipped, pages 1-1 after them are extracted
C12_Witness ==
    /\ spc = "returned"
    /\ sTotalPages = 2
    /\ Len(sBoundaries) = 2
    /\ sBoundaries[1].start_page = 3
    /\ sBoundaries[1].end_page = 3
    /\ sOrigin = <<2>>
    /\ sResults[1].pdfBytes = <<1>>
    /\ sLog = <<[level |-> "warn", start |-> 3, end |-> 2]>>

\* C13: every artifact returned by splitPDF contains exactly the source pages
\* start'..end' of its clamped range, once each and in ascending order, and its
\* pageCount equals end' - start' + 1, which is at least 1.
C13_ArtifactPages ==
    \A j \in 1..Len(sResults) :
        LET r == sResults[j]
            st == ClampStart(r.boundary)
            en == ClampEnd(r.boundary, sTotalPages)
        IN  /\ r.pageCount # NaN
            /\ r.pageCount >= 1
            /\ r.boundary.start_page # NaN
            /\ r.pageCount = en - st + 1
            /\ r.pdfBytes = [i \in 1..(en - st + 1) |-> st + i - 1]

\* the positions other than f whose clamped range is not empty, ascending
SurvivorsBut(f) ==
    {k \in 1..Len(sBoundaries) :
        k # f /\ ~ClampsToNothing(sBoundaries[k], sTotalPages)}

PartitionsPages(s, n) ==
    /\ IsExactPartition(s, n)
    /\ \A i \in 1..Len(s) :
          s[i].start_page # NaN /\ s[i].start_page <= s[i].end_page

RECURSIVE SumPageCount(_)
SumPageCount(results) ==
    IF Len(results) = 0 THEN 0
    ELSE Head(results).pageCount + SumPageCount(Tail(results))

\* C15: round trip: when the boundaries exactly partition pages 1..N of an N-page
\* source (and no page copy fails), splitPDF returns one artifact per boundary,
\* the sum of the artifacts' pageCount is N, and the artifacts' pages
\* concatenated in boundary order are pages 1..N in order.
C15_RoundTrip ==
    (spc = "returned" /\ sFailed = {} /\ PartitionsPages(sBoundaries, sTotalPages)) =>
        /\ Len(sResults) = Len(sBoundaries)
        /\ \A j \in 1..Len(sResults) : sResults[j].boundary = sBoundaries[j]
        /\ SumPageCount(sResults) = sTotalPages
        /\ Concat([j \in 1..Len(sResults) |-> sResults[j].pdfBytes])
              = [i \in 1..sTotalPages |-> i]

\* a two-page source split into its two pages
C15_Witness ==
    /\ spc = "returned"
    /\ sFailed = {}
    /\ sTotalPages = 2
    /\ Len(sBoundaries) = 2
    /\ PartitionsPages(sBoundaries, sTotalPages)
    /\ Len(sResults) = 2
    /\ sResults[1].pdfBytes = <<1>>
    /\ sResults[2].pdfBytes = <<2>>

(***************************************************************************)
(* SpecName: the names splitPDF suggests. One call on a list of two        *)
(* boundaries of a source of MaxNamePages pages, with titles over a small  *)
(* alphabet (a letter, a capital, a blank, a punctuation mark, a dash) and *)
(* a title as long as the length limit; or the call of the naming scenario *)
(* (an e-mail on pages 19-27).                                             *)
(***************************************************************************)
\* longest title, the long one apart
MaxTitleLen == 2
\* page count of the source whose boundaries are named
MaxNamePages == 2

TitleAlphabet == {"a", "B", " ", "!", "-"}

LongTitle == [i \in 1..SliceLimit |-> "a"]

Titles == SeqsUpTo(TitleAlphabet, MaxTitleLen) \cup {LongTitle}

MariaCowie ==
    <<"M", "a", "r", "i", "a", " ", "&", " ", "C", "o", "w", "i", "e", "!", "!">>

NameBoundaries(type, titles) ==
    {Boundary(st, en, type, title, 90) :
        st \in 1..MaxNamePages, en \in 1..MaxNamePages, title \in titles}

NInit ==
    /\ npc = "input"
    /\ \/ /\ nTotalPages = 27
          /\ nBoundaries = <<Boundary(19, 27, "email", MariaCowie, 90)>>
       \/ /\ nTotalPages = MaxNamePages
          /\ \E type \in {"email", "police-report"} :
                \E A \in NameBoundaries(type, Titles) :
                    \E B \in NameBoundaries(type, {A.title} \cup SeqsUpTo(TitleAlphabet, 1)) :
                        /\ A.start_page <= A.end_page
                        /\ B.start_page <= B.end_page
                        /\ nBoundaries = <<A, B>>
    /\ nResults = <<>>
    /\ VIdle
    /\ DIdle
    /\ HIdle
    /\ SIdle
    /\ CIdle
    /\ IIdle
    /\ MIdle

\* pdf-splitter.ts:21-78, a call in which no page copy fails
NameAll ==
    /\ npc = "input"
    /\ nResults' = splitPDF(nTotalPages, nBoundaries, {})
    /\ npc' = "done"
    /\ UNCHANGED <<nTotalPages, nBoundaries>>
    /\ UNCHANGED <<vvars, dvars, hvars, svars, cvars, ivars, mvars>>

NNext == NameAll

SpecName == NInit /\ [][NNext]_vars

(***************************************************************************)
(* Properties of the suggested names.                                      *)
(***************************************************************************)
\* the slug of the claims: the title lowercased, every run of characters outside
\* [a-z0-9._-] replaced by one '-', leading and trailing '-' removed
TitleSlug(title) == StripDashes(ReplaceInvalidRuns(toLowerCase(title)))

\* '_p' start '-' end '.pdf'
PageSuffix(st, en) ==
    <<"_", "p">> \o NumberToString(st) \o <<"-">> \o NumberToString(en)
        \o <<".", "p", "d", "f">>

ExpectedName(b, st, en) ==
    TypeChars(b.document_type) \o <<"_">> \o TitleSlug(b.title) \o PageSuffix(st, en)

\* C16: the suggested name of a boundary equals documentType + '_' + slug(title)
\* + '_p' + start + '-' + end + '.pdf'; for document type 'email', title
\* 'Maria & Cowie!!' and pages 19-27 the name is 'email_maria-cowie_p19-27.pdf'.
C16_NameFormat ==
    npc = "done" =>
        \A j \in 1..Len(nResults) :
            LET r == nResults[j]
                b == r.boundary
            IN  /\ Len(b.title) <= MaxTitleLen =>
                      r.suggestedFileName
                          = ExpectedName(b, ClampStart(b), ClampEnd(b, nTotalPages))
                /\ b.title = MariaCowie =>
                      r.suggestedFileName =
                          <<"e", "m", "a", "i", "l", "_", "m", "a", "r", "i", "a", "-",
                            "c", "o", "w", "i", "e", "_", "p", "1", "9", "-", "2", "7",
                            ".", "p", "d", "f">>

RangesDisjoint(a, b) == a.end_page < b.start_page \/ b.end_page < a.start_page

\* C17: within one run, any two boundaries with different, non-overlapping page
\* ranges receive different suggested names, for all document types and all
\* titles of any length, identical titles included.
C17_NamesUnique ==
    npc = "done" =>
        \A i, j \in 1..Len(nResults) :
            (i < j /\ RangesDisjoint(nResults[i].boundary, nResults[j].boundary))
                => nResults[i].suggestedFileName # nResults[j].suggestedFileName

EndsWith(str, suffix) ==
    /\ Len(str) >= Len(suffix)
    /\ SubSeq(str, Len(str) - Len(suffix) + 1, Len(str)) = suffix

\* C18: every suggested name is storage-safe: only characters of [a-z0-9._-], at
\* most 200 characters, no '-' at either end, no two consecutive '-', and the
\* '_p{start}-{end}.pdf' suffix of its boundary at the end.
C18_NameIsStorageSafe ==
    npc = "done" =>
        \A j \in 1..Len(nResults) :
            LET name == nResults[j].suggestedFileName
                b == nResults[j].boundary
            IN  /\ \A i \in 1..Len(name) : name[i] \in FileNameChars
                /\ Len(name) <= 200
                /\ Len(name) >= 1
                /\ name[1] # "-"
                /\ name[Len(name)] # "-"
                /\ \A i \in 1..Len(name) - 1 : ~(name[i] = "-" /\ name[i + 1] = "-")
                /\ EndsWith(name, PageSuffix(ClampStart(b), ClampEnd(b, nTotalPages)))

(***************************************************************************)
(* The stages of a handler run, and the validator's frame.                 *)
(***************************************************************************)
\* the validator has produced a report on the detected list
ValidatorRan == hValidation # NoReport

\* C19: every run passes through Indexed, Detected, Validated and then one
\* terminal state: the validator always runs on the detected boundaries before a
\* terminal state is reached (the split, or the manifest of a detect-only run),
\* and its report goes into the returned manifest, valid or not.
C19_ValidatedBeforeTerminal ==
    /\ hSplitCalled => ValidatorRan
    /\ (hResponse.returned /\ ~hResponse.isError) => ValidatorRan

\* C20: validateBoundaries performs no correction: after it returns, the supplied
\* list has the same elements, in the same order, with the same page ranges as
\* before the call, whether the report is valid or not.
C20_ValidatorLeavesListAlone ==
    vpc = "done" => vArgAfter = vBoundaries

\* an out-of-order list is reported (overlap) and handed back as it came
C20_Witness ==
    /\ vpc = "done"
    /\ vBoundaries = <<PageRange(2, 2), PageRange(1, 1)>>
    /\ ~vReport.valid
    /\ vArgAfter = <<PageRange(2, 2), PageRange(1, 1)>>


(***************************************************************************)
(* Failure during the split stage, the manifest's page total and the       *)
(* formatted listing (Spec).                                               *)
(***************************************************************************)
\* C22: if a run fails while the split stage is in progress, no partially built
\* artifacts are returned to the caller and no partial external state written
\* by the run (some but not all split PDFs stored) remains afterwards.
C22_FailedSplitLeavesNothing ==
    (hResponse.returned /\ hResponse.isError) =>
        /\ hResponse.result.split_files = <<>>
        /\ hBucket = {}

\* C26: the total_pages of every returned manifest equals the page count of the
\* source document, the largest page number among the supplied elements
\* (stated for the manifests that list at least one boundary).
C26_TotalPagesIsSourcePageCount ==
    (hResponse.returned /\ ~hResponse.isError /\ hElementCount > 0
        /\ hBoundaries # <<>>) =>
        hResponse.result.total_pages = hPageCount

\* C28: in the formatted result the split file shown under the i-th listed
\* boundary is the one that was produced from that same boundary, and a boundary
\* for which the splitter produced no artifact is shown without a split file
\* (stated for the lists whose boundaries all carry their page numbers).
C28_SplitFileUnderItsBoundary ==
    (hResponse.returned /\ ~hResponse.isError
        /\ \A k \in 1..Len(hBoundaries) : hBoundaries[k].start_page # NaN) =>
        \A i \in 1..Len(hResponse.text) :
            LET entry == hResponse.text[i]
            IN  /\ entry.boundary = hBoundaries[i]
                /\ entry.splitFile # NoSplitFile =>
                      entry.splitFile.boundary = entry.boundary
                /\ (\A k \in 1..Len(hUploadResults) :
                        hUploadResults[k].boundary # entry.boundary) =>
                      entry.splitFile = NoSplitFile


(***************************************************************************)
(* Extraction of the array from the oracle's response (SpecDetect).        *)
(***************************************************************************)
\* the substrings of the response that are a well-formed array: "[", objects, "]"
WellFormedArrays(text) ==
    {ij \in (1..Len(text)) \X (1..Len(text)) :
        /\ ij[1] < ij[2]
        /\ text[ij[1]].t = "["
        /\ text[ij[2]].t = "]"
        /\ \A k \in ij[1] + 1..ij[2] - 1 : text[k].t = "item"}

\* the objects of the first of them
FirstWellFormedArray(text) ==
    LET ij == CHOOSE a \in WellFormedArrays(text) :
                  \A b \in WellFormedArrays(text) : a[1] <= b[1]
    IN  [k \in 1..ij[2] - ij[1] - 1 |-> text[ij[1] + k].v]

\* C25: when the oracle's response contains a well-formed array of boundary
\* objects wrapped in prose or in a code fence, the call returns the boundaries
\* of the first well-formed array (in some order), not the fallback boundary,
\* whatever other text, other bracket characters included, surrounds it.
C25_FirstArrayIsExtracted ==
    (/\ DReturned
     /\ dElements # <<>>
     /\ dOracle.kind = "text"
     /\ WellFormedArrays(dOracle.text) # {}
     /\ FirstWellFormedArray(dOracle.text) # <<>>) =>
        dResult \in PermutationsOf(FirstWellFormedArray(dOracle.text))

(***************************************************************************)
(* The page range recorded with an artifact (SpecSplit).                   *)
(***************************************************************************)
\* C27: for every artifact of splitPDF and the object splitPDFToR2 stores for it,
\* the recorded page range (the boundary carried in the artifact, the page_range
\* metadata) is the range of the pages copied into it and named in its suggested
\* file name, so that pageCount = boundary.end_page - boundary.start_page + 1
\* (stated for the boundaries that carry their page numbers).
C27_RecordedRangeIsCopiedRange ==
    \A j \in 1..Len(sResults) :
        LET r == sResults[j]
            b == r.boundary
        IN  b.start_page # NaN =>
              /\ r.pdfBytes = [i \in 1..b.end_page - b.start_page + 1 |->
                                  b.start_page + i - 1]
              /\ EndsWith(r.suggestedFileName, PageSuffix(b.start_page, b.end_page))
              /\ R2Object(R2Prefix, r).page_range
                    = <<r.pdfBytes[1], r.pdfBytes[Len(r.pdfBytes)]>>
              /\ r.pageCount = b.end_page - b.start_page + 1


(***************************************************************************)
(* SpecIndex: the head of detectDocumentBoundaries, lines 55-72: the       *)
(* elements are grouped by page, the page count is taken, and the page     *)
(* summary for the prompt is built. The texts of the elements are          *)
(* sequences of characters; one of them is longer than the preview limit.  *)
(***************************************************************************)
\* longest element list handed to the grouping
MaxIndexElems == 3
\* largest page number an element carries
MaxIndexPages == 2

IndexElements ==
    {Element(type, text, page) :
        type \in {"Title", "Header", "NarrativeText"},
        text \in {<<"a">>, [i \in 1..PreviewLimit + 1 |-> "x"]},
        page \in 0..MaxIndexPages}

IInit ==
    /\ ipc = "input"
    /\ iElements \in SeqsUpTo(IndexElements, MaxIndexElems)
    /\ iPageGroups = <<>>
    /\ iPageCount = 0
    /\ iPageSummary = <<>>
    /\ VIdle
    /\ DIdle
    /\ HIdle
    /\ SIdle
    /\ NIdle
    /\ CIdle
    /\ MIdle

\* document-decomposer.ts:55-56
IGroup ==
    /\ ipc = "input"
    /\ iPageGroups' = groupElementsByPage(iElements)
    /\ iPageCount' = PageCount(groupElementsByPage(iElements))
    /\ ipc' = "grouped"
    /\ UNCHANGED <<iElements, iPageSummary>>
    /\ UNCHANGED <<vvars, dvars, hvars, svars, nvars, cvars, mvars>>

\* document-decomposer.ts:58-72
ISummarize ==
    /\ ipc = "grouped"
    /\ iPageSummary' = PageSummary(iPageGroups)
    /\ ipc' = "summarized"
    /\ UNCHANGED <<iElements, iPageGroups, iPageCount>>
    /\ UNCHANGED <<vvars, dvars, hvars, svars, nvars, cvars, mvars>>

INext ==
    \/ IGroup
    \/ ISummarize

SpecIndex == IInit /\ [][INext]_vars

(***************************************************************************)
(* Properties of the grouping and of the page summary.                     *)
(***************************************************************************)
\* the page an element belongs to: its page number, page 1 when it has none
ClaimedPage(e) == IF e.page_number = 0 THEN 1 ELSE e.page_number

\* the positions of the input that lie on page p, ascending
PositionsOnPage(elements, p) ==
    SortedKeys({k \in 1..Len(elements) : ClaimedPage(elements[k]) = p})

\* C23: groupElementsByPage partitions its input: every element is in exactly one
\* group, the group of its page number, or of page 1 when it carries none; each
\* group keeps the input order; the page count is the largest page number among
\* the elements.
C23_GroupsPartitionInput ==
    ipc \in {"grouped", "summarized"} =>
        /\ DOMAIN iPageGroups = {ClaimedPage(iElements[k]) : k \in 1..Len(iElements)}
        /\ \A p \in DOMAIN iPageGroups :
              LET at == PositionsOnPage(iElements, p)
              IN  iPageGroups[p] = [i \in 1..Len(at) |-> iElements[at[i]]]
        /\ iElements # <<>> =>
              \A m \in DOMAIN iPageGroups :
                  (\A p \in DOMAIN iPageGroups : p <= m) => iPageCount = m

\* two elements of page 1, one of them without page number, around an element of
\* page 2, have been grouped
C23_Witness ==
    /\ ipc = "grouped"
    /\ Len(iElements) = 3
    /\ iElements[1].page_number = 0
    /\ iElements[2].page_number = 2
    /\ iElements[3].page_number = 1
    /\ iElements[1] # iElements[3]
    /\ Len(iPageGroups[1]) = 2
    /\ iPageCount = 2

\* the texts of the elements of the given type on page p, in input order
ClaimedTexts(elements, p, type) ==
    LET at == SortedKeys({k \in 1..Len(elements) :
                            ClaimedPage(elements[k]) = p /\ elements[k].type = type})
    IN  [i \in 1..Len(at) |-> elements[at[i]].text]

\* the first at most 200 characters of the first NarrativeText of page p, or ''
ClaimedPreview(elements, p) ==
    LET texts == ClaimedTexts(elements, p, "NarrativeText")
    IN  IF texts = <<>> THEN <<>>
        ELSE [i \in 1..(IF Len(texts[1]) < 200 THEN Len(texts[1]) ELSE 200) |->
                 texts[1][i]]

\* C24: the page summary has exactly one entry per distinct page number present
\* among the elements, in ascending page order, none for a page without
\* elements; an entry's titles and headers are the texts of the page's Title and
\* Header elements in order, its preview the first NarrativeText of the page cut
\* to at most 200 characters, or the empty string.
C24_SummaryPerPage ==
    ipc = "summarized" =>
        /\ {iPageSummary[i].page : i \in 1..Len(iPageSummary)}
              = {ClaimedPage(iElements[k]) : k \in 1..Len(iElements)}
        /\ \A i, j \in 1..Len(iPageSummary) :
              i < j => iPageSummary[i].page < iPageSummary[j].page
        /\ \A i \in 1..Len(iPageSummary) :
              LET entry == iPageSummary[i]
              IN  /\ entry.titles = ClaimedTexts(iElements, entry.page, "Title")
                  /\ entry.headers = ClaimedTexts(iElements, entry.page, "Header")
                  /\ entry.preview = ClaimedPreview(iElements, entry.page)
                  /\ Len(entry.preview) <= 200

\* pages 1 and 2 carry elements: page 1 a title and a paragraph longer than the
\* limit, whose preview was cut, page 2 a title and no paragraph
C24_Witness ==
    /\ ipc = "summarized"
    /\ Len(iPageSummary) = 2
    /\ iPageSummary[1].page = 1
    /\ Len(iPageSummary[1].titles) = 1
    /\ Len(iPageSummary[1].preview) = 200
    /\ iPageSummary[2].page = 2
    /\ Len(iPageSummary[2].titles) = 1
    /\ iPageSummary[2].preview = <<>>


(***************************************************************************)
(* SpecConcurrent: two runs of handleDecomposeDocument with autoSplit, on  *)
(* two different source files, against the same env.DOCUMENTS_R2. A run    *)
(* yields to the other at its awaits: after detection, after splitPDF and  *)
(* after each r2Bucket.put. The bytes of a split PDF are the pages of the  *)
(* run's own source.                                                       *)
(***************************************************************************)
\* largest page count of a source PDF of a concurrent run
MaxConcPages == 2
\* longest array the oracle answers in a concurrent run
MaxConcItems == 1

\* '/a/s.pdf', '/b/s.pdf', '/a/t.pdf'
FilePaths ==
    {<<"/", "a", "/", "s", ".", "p", "d", "f">>,
     <<"/", "b", "/", "s", ".", "p", "d", "f">>,
     <<"/", "a", "/", "t", ".", "p", "d", "f">>}

\* input.outputPrefix: absent, or 'o/'
OutputPrefixes == {<<>>, <<"o", "/">>}

ConcItems ==
    {Boundary(1, 1, "police-report", <<"R", "e", "p", "o", "r", "t">>, 95),
     Boundary(2, 3, "email", <<"R", "e", ":", " ", "H", "i">>, 90)}

ConcOracleOutcomes ==
    {OracleOutcome("throws", <<>>)}
    \cup {OracleOutcome("text",
                        <<Tok("fence_open")>> \o ArrayText(xs) \o <<Tok("fence_close")>>) :
            xs \in SeqsUpTo(ConcItems, MaxConcItems)}

NewRun(filePath, outputPrefix) ==
    [pc |-> "start",
     filePath |-> filePath,
     outputPrefix |-> outputPrefix,
     pdfPages |-> 1,
     elementCount |-> 0,
     boundaries |-> <<>>,
     splitResults |-> <<>>,
     uploadResults |-> <<>>,
     response |-> NoResponse]

\* pdf-splitter.ts:124-133 for a run: the stored body is made of pages of the
\* run's source file
RunObject(run, result) ==
    [R2Object(R2PrefixOf(run.filePath, run.outputPrefix), result)
        EXCEPT !.body = [source |-> run.filePath, pages |-> result.pdfBytes]]

CInit ==
    /\ \E f1 \in FilePaths, f2 \in FilePaths, o1 \in OutputPrefixes,
          o2 \in OutputPrefixes :
          /\ f1 # f2
          /\ cRuns = <<NewRun(f1, o1), NewRun(f2, o2)>>
    /\ cBucket = {}
    /\ VIdle
    /\ DIdle
    /\ HIdle
    /\ SIdle
    /\ NIdle
    /\ IIdle
    /\ MIdle

\* part_002:147-182  the file is read and partitioned, detection returns
CDetect(r) ==
    /\ cRuns[r].pc = "start"
    /\ \E pages \in 1..MaxConcPages, o \in ConcOracleOutcomes :
          LET elements == <<Element("Title", "t", pages)>>
          IN  cRuns' = [cRuns EXCEPT ![r].pc = "split",
                                     ![r].pdfPages = pages,
                                     ![r].elementCount = Len(elements),
                                     ![r].boundaries =
                                         detectDocumentBoundaries(elements, o)]
    /\ UNCHANGED cBucket
    /\ UNCHANGED <<vvars, dvars, hvars, svars, nvars, ivars, mvars>>

\* part_002:192 with pdf-splitter.ts:117  splitPDF returns its results
CSplit(r) ==
    /\ cRuns[r].pc = "split"
    /\ \E failing \in SUBSET (1..Len(cRuns[r].boundaries)) :
          cRuns' = [cRuns EXCEPT ![r].pc = "upload",
                                 ![r].splitResults =
                                     splitPDF(cRuns[r].pdfPages, cRuns[r].boundaries,
                                              failing)]
    /\ UNCHANGED cBucket
    /\ UNCHANGED <<vvars, dvars, hvars, svars, nvars, ivars, mvars>>

\* pdf-splitter.ts:121-141, one pass of the run's upload loop
CPut(r) ==
    /\ cRuns[r].pc = "upload"
    /\ Len(cRuns[r].uploadResults) < Len(cRuns[r].splitResults)
    /\ LET run == cRuns[r]
           result == run.splitResults[Len(run.uploadResults) + 1]
       IN  /\ cBucket' = BucketPut(cBucket, RunObject(run, result))
           /\ cRuns' = [cRuns EXCEPT ![r].uploadResults =
                           Append(@, UploadResult(R2PrefixOf(run.filePath,
                                                             run.outputPrefix),
                                                  result))]
    /\ UNCHANGED <<vvars, dvars, hvars, svars, nvars, ivars, mvars>>

\* part_002:200-221
CCompile(r) ==
    /\ cRuns[r].pc = "upload"
    /\ Len(cRuns[r].uploadResults) = Len(cRuns[r].splitResults)
    /\ LET run == cRuns[r]
           inp == [detectOnly |-> FALSE, autoSplit |-> TRUE]
       IN  cRuns' = [cRuns EXCEPT ![r].pc = "done",
                                  ![r].response =
                                      OkResponse(CompileResult(inp, run.boundaries,
                                                               run.elementCount,
                                                               run.uploadResults),
                                                 run.uploadResults)]
    /\ UNCHANGED cBucket
    /\ UNCHANGED <<vvars, dvars, hvars, svars, nvars, ivars, mvars>>

\* part_002:222-230  an await of the run rejects: the file read, the partition
\* request, PDFDocument.load, or a put that is still to be made
CFails(r) ==
    /\ \/ cRuns[r].pc \in {"start", "split"}
       \/ /\ cRuns[r].pc = "upload"
          /\ Len(cRuns[r].uploadResults) < Len(cRuns[r].splitResults)
    /\ cRuns' = [cRuns EXCEPT ![r].pc = "done", ![r].response = ErrorResponse]
    /\ UNCHANGED cBucket
    /\ UNCHANGED <<vvars, dvars, hvars, svars, nvars, ivars, mvars>>

CNext ==
    \E r \in 1..2 :
        \/ CDetect(r)
        \/ CSplit(r)
        \/ CPut(r)
        \/ CCompile(r)
        \/ CFails(r)

SpecConcurrent == CInit /\ [][CNext]_vars

\* the stored object run r put under its k-th key is in the bucket as r put it
StillStored(r, k) ==
    RunObject(cRuns[r], cRuns[r].splitResults[k]) \in cBucket

\* C21: two runs executed concurrently on independent source documents do not
\* interfere, under every interleaving: no stored object produced by one run is
\* overwritten or altered by the other (stated for two different source files
\* whose runs leave the output prefix to the handler).
C21_RunsDoNotInterfere ==
    (/\ cRuns # <<>>
     /\ cRuns[1].filePath # cRuns[2].filePath
     /\ \A r \in 1..2 : cRuns[r].outputPrefix = <<>>) =>
        \A r \in 1..2 : \A k \in 1..Len(cRuns[r].uploadResults) : StillStored(r, k)


(***************************************************************************)
(* The HTTP MCP endpoint: the fetch handler of the worker   part_001       *)
(* A request id is a number, a string, null, or absent.                    *)
(***************************************************************************)
\* JsonRpcRequest.id                                       part_001:1535
RequestId(kind, num, str) == [kind |-> kind, num |-> num, str |-> str]
NullId == RequestId("null", 0, "")

\* part_001:1596, 1629, 1651, 1656, 1660  `jsonRpcRequest.id || null`: undefined, null, 0 and '' are
\* falsy
IdOrNull(id) ==
    IF \/ id.kind \in {"absent", "null"}
       \/ id = RequestId("number", 0, "")
       \/ id = RequestId("string", 0, "")
    THEN NullId ELSE id

\* what the result member of a response holds
NoRpcResult == [kind |-> "none", tools |-> <<>>, handler |-> ""]
\* part_001:1606-1617
InitializeResult == [kind |-> "initialize", tools |-> <<>>, handler |-> ""]
\* part_001:1619-1623
ToolsResult(tools) == [kind |-> "tools", tools |-> tools, handler |-> ""]
\* part_001:1634-1648  what the handler of the tool returned
CallResult(handler) == [kind |-> "call", tools |-> <<>>, handler |-> handler]

\* a tool list that also offers the decomposition tool
getToolsWithDecompose ==
    <<"legal_track_document", "legal_search_documents", "legal_analyze_document",
      "legal_get_document", "legal_decompose_document">>

\* part_001:1031-1158  LegalMCPServer.getTools, by the tools' names
getTools ==
    <<"legal_track_document", "legal_search_documents", "legal_analyze_document",
      "legal_get_document">>

\* part_001:1672-1685
jsonRpcSuccess(id, result) ==
    [kind |-> "jsonrpc", status |-> 200, id |-> id,
     hasResult |-> TRUE, result |-> result, hasError |-> FALSE, code |-> 0]

\* part_001:1690-1708
jsonRpcError(id, code) ==
    [kind |-> "jsonrpc", status |-> 200, id |-> id,
     hasResult |-> FALSE, result |-> NoRpcResult, hasError |-> TRUE, code |-> code]

\* part_001:1557-1565, 1568-1580, 1583-1588: the responses that are no JSON-RPC
\* object
PlainResponse(kind, status) ==
    [kind |-> kind, status |-> status, id |-> NullId,
     hasResult |-> FALSE, result |-> NoRpcResult, hasError |-> FALSE, code |-> 0]

\* params of a tools/call request: params absent, or an object with or without
\* a name
Params(present, hasName, name) ==
    [present |-> present, hasName |-> hasName, name |-> name]

\* part_001:1626-1630  `const { name } = jsonRpcRequest.params || {}` and `!name`
NameIsMissing(params) == ~params.present \/ ~params.hasName \/ params.name = ""

\* part_001:1625-1653  the case 'tools/call' with its switch over the tool name
ToolsCall(id, params) ==
    IF NameIsMissing(params) THEN jsonRpcError(IdOrNull(id), -32602)
    ELSE CASE params.name = "legal_track_document" ->
                jsonRpcSuccess(IdOrNull(id), CallResult("handleTrackDocument"))
           [] params.name = "legal_search_documents" ->
                jsonRpcSuccess(IdOrNull(id), CallResult("handleSearchDocuments"))
           [] params.name = "legal_analyze_document" ->
                jsonRpcSuccess(IdOrNull(id), CallResult("handleAnalyzeDocument"))
           [] params.name = "legal_get_document" ->
                jsonRpcSuccess(IdOrNull(id), CallResult("handleGetDocument"))
           [] OTHER -> jsonRpcError(IdOrNull(id), -32601)

\* part_001:1605-1660  the switch over the method, once the server was built
Route(rpc) ==
    CASE rpc.method = "initialize" -> jsonRpcSuccess(IdOrNull(rpc.id), InitializeResult)
      [] rpc.method = "tools/list" -> jsonRpcSuccess(IdOrNull(rpc.id), ToolsResult(getTools))
      [] rpc.method = "tools/call" -> ToolsCall(rpc.id, rpc.params)
      [] OTHER -> jsonRpcError(IdOrNull(rpc.id), -32601)

\* part_001:1555-1666  fetch(request, env). request.json() rejects for a body
\* that is no JSON; the constructor of LegalMCPServer throws without env.NEON
\* (part_001:979-981); both end in the catch block, which answers with id null
fetch(request, env) ==
    IF request.httpMethod = "OPTIONS" THEN PlainResponse("cors", 200)
    ELSE IF request.httpMethod = "GET" /\ request.path = "/health"
    THEN PlainResponse("health", 200)
    ELSE IF request.httpMethod # "POST" THEN PlainResponse("method-not-allowed", 405)
    ELSE IF ~request.body.parses THEN jsonRpcError(NullId, -32603)
    ELSE IF request.body.jsonrpc # "2.0"
    THEN jsonRpcError(IdOrNull(request.body.id), -32600)
    ELSE IF ~env.NEON THEN jsonRpcError(NullId, -32603)
    ELSE Route(request.body)

(***************************************************************************)
(* SpecMcp: the endpoint answers one request after the other.              *)
(***************************************************************************)
\* number of requests the endpoint answers in a run
MaxRequests == 2
\* largest number used as a request id
MaxId == 1

RequestIds ==
    {RequestId("number", n, "") : n \in 0..MaxId}
    \cup {RequestId("string", 0, ""), RequestId("string", 0, "a"), NullId,
          RequestId("absent", 0, "")}

RpcBody(jsonrpc, id, method, params) ==
    [parses |-> TRUE, jsonrpc |-> jsonrpc, id |-> id, method |-> method,
     params |-> params]

NoBody == [parses |-> FALSE, jsonrpc |-> "", id |-> RequestId("absent", 0, ""), method |-> "",
           params |-> Params(FALSE, FALSE, "")]

RpcBodies ==
    {RpcBody(v, id, m, Params(FALSE, FALSE, "")) :
        v \in {"2.0", "1.0"}, id \in RequestIds,
        m \in {"initialize", "tools/list", "tools/call", "resources/list"}}
    \cup {RpcBody(v, id, "tools/call", p) :
        v \in {"2.0", "1.0"}, id \in RequestIds,
        p \in {Params(TRUE, FALSE, ""), Params(TRUE, TRUE, "")}
                \cup {Params(TRUE, TRUE, n) :
                         n \in {"legal_track_document", "legal_search_documents",
                                "legal_analyze_document", "legal_get_document",
                                "legal_decompose_document"}}}

HttpRequest(httpMethod, path, body) ==
    [httpMethod |-> httpMethod, path |-> path, body |-> body]

Requests ==
    {HttpRequest(m, p, NoBody) :
        m \in {"OPTIONS", "GET", "POST"}, p \in {"/", "/health"}}
    \cup {HttpRequest("POST", "/", b) : b \in RpcBodies}

MInit ==
    /\ mEnv \in {[NEON |-> b] : b \in BOOLEAN}
    /\ mRequest = HttpRequest("OPTIONS", "/", NoBody)
    /\ mResponse = PlainResponse("none", 0)
    /\ mServed = 0
    /\ VIdle
    /\ DIdle
    /\ HIdle
    /\ SIdle
    /\ NIdle
    /\ CIdle
    /\ IIdle

\* part_001:1555-1666  one request is answered
Fetch ==
    /\ mServed < MaxRequests
    /\ \E request \in Requests :
          /\ mRequest' = request
          /\ mResponse' = fetch(request, mEnv)
    /\ mServed' = mServed + 1
    /\ UNCHANGED mEnv
    /\ UNCHANGED <<vvars, dvars, hvars, svars, nvars, cvars, ivars>>

SpecMcp == MInit /\ [][Fetch]_vars

(***************************************************************************)
(* Properties of the endpoint.                                             *)
(***************************************************************************)
\* the last request was a POST carrying a JSON-RPC 2.0 request, and was answered
AnsweredRpc ==
    /\ mServed >= 1
    /\ mRequest.httpMethod = "POST"
    /\ mRequest.body.parses
    /\ mRequest.body.jsonrpc = "2.0"

C30_ResponseEchoesId ==
    (AnsweredRpc /\ mEnv.NEON /\ mRequest.body.id.kind \in {"number", "string"}) =>
        /\ mResponse.kind = "jsonrpc"
        /\ mResponse.hasResult # mResponse.hasError
        /\ mResponse.id = mRequest.body.id

=============================================================================
